---- MODULE Spec2Model ----
(***************************************************************************)
(* PLATE-VS bulk downloader: download_all_data.main driving                *)
(* PlateVSClient.check_service_status, download_similarity_matrix_csv and  *)
(* download_similarity_sdf.                                                *)
(*                                                                         *)
(* Thresholds are floats with one decimal; they are held in tenths         *)
(* (0.5 is 5).  Sleep intervals are held in tenths of a second.            *)
(* The remote service and the local disk are the environment: every        *)
(* request draws a response, every file write draws a disk behaviour.      *)
(***************************************************************************)
EXTENDS Integers, Sequences, FiniteSets, TLC

VARIABLES
    thresholds,   \* THRESHOLDS of main(), an ordered list
    qcov_levels,  \* QCOV_LEVELS of main(), an ordered list
    pc,           \* position of main()
    qi,           \* index of the outer loop variable qcov (phase 1)
    ti,           \* index of the loop variable threshold (phase 1 inner, phase 2)
    status,       \* dictionary returned by check_service_status
    csv_count,    \* succeeded counter of phase 1
    sdf_count,    \* succeeded counter of phase 2
    fs,           \* the files of the output directory: path -> size in bytes
    log           \* what the run did so far, in order

vars == <<thresholds, qcov_levels, pc, qi, ti, status, csv_count, sdf_count, fs, log>>

----------------------------------------------------------------------------
(* Bounds *)

\* largest response body, in bytes
MaxBody == 1

(* Values the configured lists are drawn from; a list holds no value twice *)
ThresholdValues == {0, 5}
QcovValues == {50, 100}

(* Program constants *)
CSV_PAUSE == 5
SDF_PAUSE == 10
OUTPUT_DIR == "./platevs_full_dataset"

----------------------------------------------------------------------------
(* Helpers on sequences *)

Range(s) == {s[i] : i \in DOMAIN s}

IsInjective(s) == \A i, j \in DOMAIN s : s[i] = s[j] => i = j

InjSeqs(S) == UNION {{s \in [1..k -> S] : IsInjective(s)} : k \in 0..Cardinality(S)}

IsPrefix(s, t) == Len(s) <= Len(t) /\ \A i \in 1..Len(s) : s[i] = t[i]

----------------------------------------------------------------------------
(* The environment: what a request and a file write can do *)

Statuses == {200, 404, 500}

\* session.get either raises a RequestException or returns a response
Responses ==
    [kind : {"response"}, code : Statuses, len : 0..MaxBody]
    \cup [kind : {"ConnectionError", "Timeout"}]

\* open(path, 'wb') succeeds or raises OSError; f.write stores `written`
\* bytes and raises OSError when that is less than the body
Disks == [open : BOOLEAN, written : 0..MaxBody]

----------------------------------------------------------------------------
(* File names: the f-strings of the two download methods *)

Digit(d) == <<"0", "1", "2", "3", "4", "5", "6", "7", "8", "9">>[d + 1]

RECURSIVE IntStr(_)
IntStr(n) == IF n < 10 THEN <<Digit(n)>> ELSE IntStr(n \div 10) \o <<Digit(n % 10)>>

\* str() of a float with one decimal, given in tenths
FloatStr(t) == IntStr(t \div 10) \o <<".">> \o <<Digit(t % 10)>>

CsvFilename(q, t) ==
    <<"similarity_matrix_qcov">> \o IntStr(q) \o <<"_threshold_">> \o FloatStr(t) \o <<".csv">>

SdfFilename(t) ==
    <<"similarity_sdf_threshold_">> \o FloatStr(t) \o <<".tar.gz">>

\* self.output_dir / filename
FilePath(name) == <<OUTPUT_DIR, "/">> \o name

CsvTask(q, t) == [cat |-> "csv", qcov |-> q, thr |-> t]
SdfTask(t) == [cat |-> "sdf", qcov |-> 0, thr |-> t]

TaskPath(task) ==
    IF task.cat = "csv" THEN FilePath(CsvFilename(task.qcov, task.thr))
    ELSE FilePath(SdfFilename(task.thr))

----------------------------------------------------------------------------
(* The download methods *)

\* response.raise_for_status(): HTTPError for 4xx and 5xx
RaisesForStatus(code) == code >= 400 /\ code < 600

\* with open(filepath, 'wb') as f: f.write(response.content)
\* gives the files afterwards and whether OSError was raised
WriteFile(files, path, len, disk) ==
    IF ~disk.open THEN [fs |-> files, raised |-> TRUE]
    ELSE LET n == IF disk.written < len THEN disk.written ELSE len
             d == DOMAIN files \cup {path}
         IN  [fs |-> [p \in d |-> IF p = path THEN n ELSE files[p]],
              raised |-> n < len]

\* The try/except of download_similarity_matrix_csv and
\* download_similarity_sdf: only requests.exceptions.RequestException is
\* caught.  result.kind is "path" (returned filepath), "None" (returned
\* None) or "OSError" (the exception leaves the method).
Download(files, task, resp, disk) ==
    IF resp.kind # "response" THEN
        [fs |-> files, result |-> [kind |-> "None"]]
    ELSE IF RaisesForStatus(resp.code) THEN
        [fs |-> files, result |-> [kind |-> "None"]]
    ELSE LET w == WriteFile(files, TaskPath(task), resp.len, disk)
         IN  IF w.raised THEN [fs |-> w.fs, result |-> [kind |-> "OSError"]]
             ELSE [fs |-> w.fs, result |-> [kind |-> "path", path |-> TaskPath(task)]]

\* `if path:` of main(); a Path object is truthy, None is not
Truthy(result) == result.kind = "path"

\* Tally as it would be if the result were not looked at
TallyAlways(count, result) == count + 1

\* if path: count += 1
Tally(count, result) == IF Truthy(result) THEN count + 1 ELSE count

----------------------------------------------------------------------------
(* check_service_status *)

\* what check_service_status can see of one probe: the status code of the
\* answer, or the RequestException that session.get raised
ProbeOutcome(resp) ==
    IF resp.kind = "response" THEN [kind |-> "response", code |-> resp.code]
    ELSE [kind |-> resp.kind, code |-> 0]

\* ProbeOk as it would be if any answer counted as up
ProbeOkAnyAnswer(resp) == resp.kind = "response"

\* status[name] = response.status_code == 200, False on RequestException
ProbeOk(resp) == resp.kind = "response" /\ resp.code = 200

ServiceStatus(mainResp, apiResp) == [main |-> ProbeOk(mainResp), api |-> ProbeOk(apiResp)]

\* Reachable as it would be if main() looked at the 'api' entry
ReachableByApi(st) == st.api

\* `if not status.get('main'): return` of main()
Reachable(st) == st.main

----------------------------------------------------------------------------
(* The loops of main() *)

\* the matrix task the loop variables stand at
CurrentCsvTask == CsvTask(qcov_levels[qi], thresholds[ti])

\* CsvAdvance as it would be with the two loops nested the other way round
CsvAdvanceQcovInner(q, t) ==
    IF q < Len(qcov_levels) THEN [qi |-> q + 1, ti |-> t, more |-> TRUE]
    ELSE IF t < Len(thresholds) THEN [qi |-> 1, ti |-> t + 1, more |-> TRUE]
    ELSE [qi |-> q, ti |-> t, more |-> FALSE]

\* advancing the nested for loops of phase 1: threshold is the inner loop
CsvAdvance(q, t) ==
    IF t < Len(thresholds) THEN [qi |-> q, ti |-> t + 1, more |-> TRUE]
    ELSE IF q < Len(qcov_levels) THEN [qi |-> q + 1, ti |-> 1, more |-> TRUE]
    ELSE [qi |-> q, ti |-> t, more |-> FALSE]

HasCsvTasks == Len(qcov_levels) > 0 /\ Len(thresholds) > 0
HasSdfTasks == Len(thresholds) > 0

\* where main() goes when phase 1 has no (more) task
AfterCsv == IF HasSdfTasks THEN "sdf" ELSE "summary"

Init ==
    /\ thresholds \in InjSeqs(ThresholdValues)
    /\ qcov_levels \in InjSeqs(QcovValues)
    /\ pc = "start"
    /\ qi = 1
    /\ ti = 1
    /\ status = [main |-> FALSE, api |-> FALSE]
    /\ csv_count = 0
    /\ sdf_count = 0
    /\ fs = <<>>
    /\ log = <<>>

\* status = client.check_service_status(); abort when 'main' is not true
CheckServiceStatus ==
    /\ pc = "start"
    /\ \E mainResp \in Responses, apiResp \in Responses :
        LET st == ServiceStatus(mainResp, apiResp) IN
        /\ status' = st
        /\ log' = Append(log, [ev |-> "probe", main |-> ProbeOutcome(mainResp),
                               api |-> ProbeOutcome(apiResp)])
        /\ pc' = IF ~Reachable(st) THEN "aborted"
                 ELSE IF HasCsvTasks THEN "csv" ELSE AfterCsv
    /\ UNCHANGED <<thresholds, qcov_levels, qi, ti, csv_count, sdf_count, fs>>

\* one matrix task: the download call and the tally (lines 53-62)
DownloadCsv ==
    /\ pc = "csv"
    /\ \E resp \in Responses, disk \in Disks :
        LET d == Download(fs, CurrentCsvTask, resp, disk) IN
        /\ fs' = d.fs
        /\ log' = Append(log, [ev |-> "task", task |-> CurrentCsvTask, result |-> d.result])
        /\ IF d.result.kind = "OSError"
           THEN pc' = "crashed" /\ UNCHANGED csv_count
           ELSE pc' = "csv_pause" /\ csv_count' = Tally(csv_count, d.result)
    /\ UNCHANGED <<thresholds, qcov_levels, qi, ti, status, sdf_count>>

\* time.sleep(0.5) and the step of the loops
CsvPause ==
    /\ pc = "csv_pause"
    /\ log' = Append(log, [ev |-> "sleep", dur |-> CSV_PAUSE])
    /\ LET a == CsvAdvance(qi, ti) IN
        IF a.more THEN qi' = a.qi /\ ti' = a.ti /\ pc' = "csv"
        ELSE qi' = qi /\ ti' = 1 /\ pc' = AfterCsv
    /\ UNCHANGED <<thresholds, qcov_levels, status, csv_count, sdf_count, fs>>

\* one archive task: the download call and the tally (lines 74-80)
DownloadSdf ==
    /\ pc = "sdf"
    /\ \E resp \in Responses, disk \in Disks :
        LET d == Download(fs, SdfTask(thresholds[ti]), resp, disk) IN
        /\ fs' = d.fs
        /\ log' = Append(log, [ev |-> "task", task |-> SdfTask(thresholds[ti]), result |-> d.result])
        /\ IF d.result.kind = "OSError"
           THEN pc' = "crashed" /\ UNCHANGED sdf_count
           ELSE pc' = "sdf_pause" /\ sdf_count' = Tally(sdf_count, d.result)
    /\ UNCHANGED <<thresholds, qcov_levels, qi, ti, status, csv_count>>

\* time.sleep(1.0) and the step of the loop
SdfPause ==
    /\ pc = "sdf_pause"
    /\ log' = Append(log, [ev |-> "sleep", dur |-> SDF_PAUSE])
    /\ IF ti < Len(thresholds) THEN ti' = ti + 1 /\ pc' = "sdf"
       ELSE ti' = ti /\ pc' = "summary"
    /\ UNCHANGED <<thresholds, qcov_levels, qi, status, csv_count, sdf_count, fs>>

\* the summary prints (lines 85-92)
Summary ==
    /\ pc = "summary"
    /\ log' = Append(log, [ev |-> "summary",
                           csv |-> csv_count, csv_total |-> Len(thresholds) * Len(qcov_levels),
                           sdf |-> sdf_count, sdf_total |-> Len(thresholds)])
    /\ pc' = "done"
    /\ UNCHANGED <<thresholds, qcov_levels, qi, ti, status, csv_count, sdf_count, fs>>

Next ==
    \/ CheckServiceStatus
    \/ DownloadCsv
    \/ CsvPause
    \/ DownloadSdf
    \/ SdfPause
    \/ Summary

Spec == Init /\ [][Next]_vars

\* main() is one sequential thread: it keeps running until it returns or raises
FairSpec == Spec /\ WF_vars(Next)

----------------------------------------------------------------------------
(* Reading the log *)

IsTask(e) == e.ev = "task"
IsCsv(e) == e.ev = "task" /\ e.task.cat = "csv"
IsSdf(e) == e.ev = "task" /\ e.task.cat = "sdf"
IsPathResult(e) == e.ev = "task" /\ e.result.kind = "path"

\* the download calls made so far, in order
TaskEvents == SelectSeq(log, IsTask)
IssuedTasks == [i \in 1..Len(TaskEvents) |-> TaskEvents[i].task]

\* how many times the fetch of one task was issued
TimesIssued(task) == Cardinality({i \in DOMAIN log : IsTask(log[i]) /\ log[i].task = task})

NumCsvIssued == Cardinality({i \in DOMAIN log : IsCsv(log[i])})
NumSdfIssued == Cardinality({i \in DOMAIN log : IsSdf(log[i])})
NumCsvPaths == Cardinality({i \in DOMAIN log : IsCsv(log[i]) /\ IsPathResult(log[i])})
NumSdfPaths == Cardinality({i \in DOMAIN log : IsSdf(log[i]) /\ IsPathResult(log[i])})

SummaryPrinted == \E i \in DOMAIN log : log[i].ev = "summary"
ProbePassed == pc # "start" /\ status.main
RunEnded == pc \in {"done", "aborted", "crashed"}

\* the enumeration the contract describes: coverage-major, threshold-minor,
\* then one archive task per threshold
ExpectedOrder ==
    LET T == Len(thresholds)
        Q == Len(qcov_levels)
    IN  [k \in 1..(Q * T) |->
            [cat |-> "csv", qcov |-> qcov_levels[((k - 1) \div T) + 1],
             thr |-> thresholds[((k - 1) % T) + 1]]]
        \o [k \in 1..T |-> [cat |-> "sdf", qcov |-> 0, thr |-> thresholds[k]]]

----------------------------------------------------------------------------
(* Claims *)

\* C1: in a run whose probe passed, when the run has ended every
\* (coverage level, threshold) pair had its matrix-CSV fetch issued exactly
\* once, and the number of matrix-CSV fetches is |coverage_levels| x |thresholds|.
C1_EachPairFetchedOnce ==
    (RunEnded /\ ProbePassed) =>
        /\ \A q \in Range(qcov_levels), t \in Range(thresholds) :
               TimesIssued([cat |-> "csv", qcov |-> q, thr |-> t]) = 1
        /\ NumCsvIssued = Len(qcov_levels) * Len(thresholds)

\* C2: the tasks issued so far are always an initial part of the fixed
\* enumeration (all matrix tasks coverage-major and threshold-minor, then the
\* archive tasks in threshold order), whatever the outcomes were, and a run
\* that printed its summary issued the whole enumeration.
C2_FixedOrder ==
    /\ IsPrefix(IssuedTasks, ExpectedOrder)
    /\ (pc = "done" => IssuedTasks = ExpectedOrder)

\* C2 witness: a finished 2 x 2 run with a failed matrix task in it whose
\* tasks came in the order (50,0.0),(50,0.5),(100,0.0),(100,0.5),(0.0),(0.5)
C2_Witness ==
    /\ pc = "done"
    /\ qcov_levels = <<50, 100>>
    /\ thresholds = <<0, 5>>
    /\ Len(TaskEvents) = 6
    /\ TaskEvents[1].result.kind = "None"
    /\ IssuedTasks[2] = [cat |-> "csv", qcov |-> 50, thr |-> 5]
    /\ IssuedTasks[3] = [cat |-> "csv", qcov |-> 100, thr |-> 0]
    /\ IssuedTasks[5] = [cat |-> "sdf", qcov |-> 0, thr |-> 0]

\* C3: in a run whose probe passed, when the run has ended every threshold
\* had its archive fetch issued exactly once, whatever the outcomes of the
\* tasks, and the number of archive fetches is |thresholds|.
C3_EachArchiveFetchedOnce ==
    (RunEnded /\ ProbePassed) =>
        /\ \A t \in Range(thresholds) :
               TimesIssued([cat |-> "sdf", qcov |-> 0, thr |-> t]) = 1
        /\ NumSdfIssued = Len(thresholds)

\* C4: at every point, per category the succeeded counter equals the number
\* of attempted tasks whose result was a path, which is at most the number
\* attempted; the summary prints the number of path results as succeeded
\* and the number of tasks attempted as total.
C4_CountersMatchResults ==
    /\ csv_count = NumCsvPaths
    /\ sdf_count = NumSdfPaths
    /\ csv_count <= NumCsvIssued
    /\ sdf_count <= NumSdfIssued
    /\ \A i \in DOMAIN log :
           log[i].ev = "summary" =>
               /\ log[i].csv = NumCsvPaths
               /\ log[i].sdf = NumSdfPaths
               /\ log[i].csv_total = NumCsvIssued
               /\ log[i].sdf_total = NumSdfIssued

\* C4 witness: a summary printed after some tasks of each category
\* succeeded and some failed
C4_Witness ==
    /\ pc = "done"
    /\ SummaryPrinted
    /\ 0 < csv_count /\ csv_count < NumCsvIssued
    /\ 0 < sdf_count /\ sdf_count < NumSdfIssued

\* C5: the probe runs once and before any download task; when it reports
\* the main site unreachable the run ends with no task attempted and no
\* summary printed.
C5_ProbeGatesRun ==
    /\ Cardinality({i \in DOMAIN log : log[i].ev = "probe"}) = (IF pc = "start" THEN 0 ELSE 1)
    /\ (log # <<>> => log[1].ev = "probe")
    /\ (pc # "start" /\ ~status.main) =>
           /\ pc = "aborted"
           /\ Len(TaskEvents) = 0
           /\ ~SummaryPrinted
           /\ fs = <<>>

\* C5 witness: the probe found the main site down although the API health
\* endpoint answered, and the run ended there
C5_Witness ==
    /\ pc = "aborted"
    /\ ~status.main
    /\ status.api
    /\ HasCsvTasks
    /\ Len(log) = 1
    /\ log[1].ev = "probe"

\* C6: every download task ends with a returned path or with None; no
\* exception leaves download_similarity_matrix_csv or download_similarity_sdf,
\* also not for a failure while writing the local file.
C6_PathOrNone ==
    \A i \in DOMAIN log :
        IsTask(log[i]) => log[i].result.kind \in {"path", "None"}

\* C7: once the probe has passed the run completes: every task of both
\* phases is attempted and the summary is printed.
C7_RunCompletes ==
    ProbePassed ~> (pc = "done" /\ SummaryPrinted /\ IssuedTasks = ExpectedOrder)

\* C8: whenever a download task returned a path, a file exists at that path
\* under the output directory, it is not empty, and the task is counted.
C8_SuccessWritesNonEmptyFile ==
    /\ \A i \in DOMAIN log :
           IsPathResult(log[i]) =>
               /\ log[i].result.path \in DOMAIN fs
               /\ log[i].result.path[1] = OUTPUT_DIR
               /\ fs[log[i].result.path] > 0
    /\ csv_count + sdf_count = NumCsvPaths + NumSdfPaths

\* C9: starting from an empty output directory, the files of the directory
\* are at every point exactly one file per task that succeeded so far:
\* distinct tasks have distinct files and a failed task left no file.
C9_OneFilePerSucceededTask ==
    /\ DOMAIN fs = {log[i].result.path : i \in {j \in DOMAIN log : IsPathResult(log[j])}}
    /\ Cardinality(DOMAIN fs) = NumCsvPaths + NumSdfPaths

\* C10: every task is followed by one pause, of the matrix interval after a
\* matrix task and of the strictly longer archive interval after an archive
\* task, whether the task succeeded or failed; no two fetches are issued
\* without a pause between them.
C10_PauseAfterEveryTask ==
    /\ CSV_PAUSE < SDF_PAUSE
    /\ \A i \in DOMAIN log :
           (IsTask(log[i]) /\ i < Len(log)) =>
               /\ log[i + 1].ev = "sleep"
               /\ log[i + 1].dur = (IF IsCsv(log[i]) THEN CSV_PAUSE ELSE SDF_PAUSE)
    /\ RunEnded => (log # <<>> /\ ~IsTask(log[Len(log)]))

\* C11: check_service_status reports 'main' and 'api' as true exactly when
\* the probe of that endpoint answered with status 200 (a transport error
\* gives false, it does not end the run), and the run goes on to the
\* download tasks exactly when the main site answered 200: what the API
\* health probe answered is not looked at.
C11_MainProbeAloneGatesRun ==
    pc # "start" =>
        /\ log[1].ev = "probe"
        /\ status.main = (log[1].main.kind = "response" /\ log[1].main.code = 200)
        /\ status.api = (log[1].api.kind = "response" /\ log[1].api.code = 200)
        /\ (pc = "aborted") = ~(log[1].main.kind = "response" /\ log[1].main.code = 200)
        /\ pc = "aborted" => Len(TaskEvents) = 0
        /\ (pc # "aborted" /\ Len(ExpectedOrder) > 0) =>
               (Len(TaskEvents) > 0 \/ pc \in {"csv", "sdf"})

\* C11 witness: the API health probe failed with a transport error, the main
\* site answered 200, and a download task was attempted all the same
C11_Witness ==
    /\ pc # "start"
    /\ log[1].main.kind = "response" /\ log[1].main.code = 200
    /\ log[1].api.kind = "ConnectionError"
    /\ ~status.api
    /\ Len(TaskEvents) > 0

====
